---------------------------- MODULE Spec2Model ----------------------------
(***************************************************************************)
(* A model of run_DINCAE_insitu.py: the observation filter (loadobs), the  *)
(* nearest-cell binning with an uncertainty floor (binanalysis), the       *)
(* sample generator (loadobsdata.datagen), the incremental NetCDF writer   *)
(* (savesample) and the month selection of monthlyCVRMS.                   *)
(*                                                                         *)
(* Numbers.  Coordinates are integers counting fixed-point units of        *)
(* 1/UnitsPerDegree degree.  Sums, inverse variances and the correction    *)
(* factor are exact rationals <<n, d>> in lowest terms with d > 0 (the     *)
(* float32 rounding of the arrays is not modelled).  Arrays keep the       *)
(* source's 0-based indices: a 1-D array is a function on 0..n-1, a 2-D    *)
(* array a function on (0..jmax-1) \X (0..imax-1), lat index first.        *)
(***************************************************************************)
EXTENDS Integers, Sequences, FiniteSets

VARIABLES
    lon, lat, mask,        \* the grid read from mask.nc (module globals)
    file, ret,             \* loadobs: the records of the file, the returned arrays
    bobs, bin,             \* binanalysis: the observation arrays, its locals at return
    obs, obsmonths,        \* the globals obsvalue, obslon, obslat, obstime; obsmonths
    train, jitter_std_lon, jitter_std_lat, jitter_std_value,  \* loadobsdata's arguments
    month, msum, minvsigma2,      \* datagen: the month, binanalysis' results
    heap, x, xin,          \* datagen: the array buffers, and the buffers x and xin name
    gap_lon, gap_lat, selmask,    \* datagen: the last gap drawn
    out,                   \* datagen: the tuple yielded last, (xin, x[:,:,0:2])
    samples,               \* the samples yielded so far: month, observations selected
    cvsel,                 \* monthlyCVRMS: the observations selected for each month
    nc, calls,             \* savesample: the file fname, the calls made so far
    pc                     \* the position of the script

gridVars == <<lon, lat, mask>>
loadVars == <<file, ret>>
binVars == <<bobs, bin>>
argVars == <<obs, obsmonths, train, jitter_std_lon, jitter_std_lat, jitter_std_value>>
saveVars == <<nc, calls>>
genVars == <<month, msum, minvsigma2, heap, x, xin, gap_lon, gap_lat, selmask, out, samples>>
vars == <<lon, lat, mask, file, ret, bobs, bin, obs, obsmonths, train, jitter_std_lon,
          jitter_std_lat, jitter_std_value, month, msum, minvsigma2, heap, x, xin,
          gap_lon, gap_lat, selmask, out, samples, cvsel, nc, calls, pc>>

(***************************************************************************)
(* Helpers                                                                 *)
(***************************************************************************)
len(a) == Cardinality(DOMAIN a)

\* a[-1] of the source: the last element of a 0-based array
last(a) == a[len(a) - 1]

Abs(n) == IF n < 0 THEN -n ELSE n

\* A uniformly spaced coordinate array: first value, step, number of points
UniformGrid(first, step, n) == [i \in 0..(n - 1) |-> first + i * step]

\* f itself; the comparison makes TLC compute the array once, where it
\* would otherwise compute an element anew at every use
Eager(f) == IF f = f THEN f ELSE f

\* boolean-mask indexing a[sel] of a 1-based sequence: the elements whose
\* mask entry is TRUE, in their order
MaskSelect(a, sel) ==
    LET kept == SelectSeq([k \in 1..Len(a) |-> <<a[k], sel[k]>>], LAMBDA p : p[2])
    IN Eager([k \in 1..Len(kept) |-> kept[k][1]])

RECURSIVE SumRange(_, _, _)
\* f[lo] + ... + f[hi], by halves
SumRange(f, lo, hi) ==
    IF lo > hi THEN 0
    ELSE IF lo = hi THEN f[lo]
    ELSE LET mid == (lo + hi) \div 2
         IN SumRange(f, lo, mid) + SumRange(f, mid + 1, hi)

(***************************************************************************)
(* The variables of the parts of the script a specification leaves alone   *)
(***************************************************************************)
NotLoaded == [value |-> <<>>, lon |-> <<>>, lat |-> <<>>, depth |-> <<>>, time |-> <<>>]

LoadIdle == file = <<>> /\ ret = NotLoaded

NoObs == [lon |-> <<>>, lat |-> <<>>, value |-> <<>>, invsigma2 |-> <<>>]

BinIdle == bobs = NoObs /\ bin = <<>>

\* no file fname, no call of savesample
NoFile == <<>>
SaveIdle == nc = NoFile /\ calls = <<>>

GenIdle ==
    /\ obs = [value |-> <<>>, lon |-> <<>>, lat |-> <<>>, time |-> <<>>]
    /\ obsmonths = <<>>
    /\ train = FALSE
    /\ jitter_std_lon = <<0, 1>>
    /\ jitter_std_lat = <<0, 1>>
    /\ jitter_std_value = <<0, 1>>
    /\ month = 0
    /\ msum = <<>>
    /\ minvsigma2 = <<>>
    /\ heap = <<>>
    /\ x = ""
    /\ xin = ""
    /\ gap_lon = <<0, 1>>
    /\ gap_lat = <<0, 1>>
    /\ selmask = <<>>
    /\ out = <<>>
    /\ samples = <<>>
    /\ cvsel = <<>>

(***************************************************************************)
(* Exact rationals <<n, d>>, d > 0, in lowest terms                        *)
(***************************************************************************)
gcd[a \in Nat, b \in Nat] == IF b = 0 THEN a ELSE gcd[b, a % b]

GCD(a, b) == gcd[a, b]

\* the fraction n/d, d # 0, in lowest terms with a positive denominator
rat[n \in Int, d \in Int] ==
    LET g == GCD(Abs(n), Abs(d))
        sg == IF d < 0 THEN -1 ELSE 1
    IN <<(sg * n) \div g, (sg * d) \div g>>

Rat(n, d) == rat[n, d]

RInt(n) == <<n, 1>>

Fractions == Int \X Int

rmul[a \in Fractions, b \in Fractions] == rat[a[1] * b[1], a[2] * b[2]]
radd[a \in Fractions, b \in Fractions] == rat[a[1] * b[2] + b[1] * a[2], a[2] * b[2]]
rlt[a \in Fractions, b \in Fractions] == a[1] * b[2] < b[1] * a[2]

RMul(a, b) == rmul[a, b]
RAdd(a, b) == radd[a, b]
RInv(a) == Rat(a[2], a[1])
RLt(a, b) == rlt[a, b]
RLe(a, b) == ~rlt[b, a]

Max(a, b) == IF a < b THEN b ELSE a

(***************************************************************************)
(* loadobs                                                                 *)
(***************************************************************************)
\* bounds of the loadobs inputs
MaxRecords == 2

\* thresholds of the selection
depth_max == 10
value_max == 200

LoadLon0 == 0
LoadLat0 == 40
LoadNLon == 3
LoadNLat == 3

\* a record that loadobs keeps, without its time stamp
LoadKept ==
    [value |-> value_max - 1, lon |-> LoadLon0 + 1, lat |-> LoadLat0 + 1,
     depth |-> depth_max - 1]

\* the values that replace one field of LoadKept: the thresholds of the
\* selection, and the least value that is kept
LoadDepths == {depth_max}
LoadLons == {LoadLon0, LoadLon0 + LoadNLon - 1}
LoadLats == {LoadLat0, LoadLat0 + LoadNLat - 1}
LoadValues == {-value_max, 1 - value_max, value_max}

LoadRecords ==
    {LoadKept} \cup {[LoadKept EXCEPT !.value = v] : v \in LoadValues}
               \cup {[LoadKept EXCEPT !.lon = v] : v \in LoadLons}
               \cup {[LoadKept EXCEPT !.lat = v] : v \in LoadLats}
               \cup {[LoadKept EXCEPT !.depth = v] : v \in LoadDepths}

\* one record of the file: the k-th entries of Temperature, obslon, obslat,
\* obsdepth, obstime
RecordsAt(t) ==
    {[value |-> r.value, lon |-> r.lon, lat |-> r.lat, depth |-> r.depth, time |-> t] :
        r \in LoadRecords}

\* the files of n records; record k carries the time stamp k (days)
RECURSIVE FilesOfLen(_)
FilesOfLen(n) ==
    IF n = 0 THEN {<<>>}
    ELSE {Append(f, r) : f \in FilesOfLen(n - 1), r \in RecordsAt(n)}

Files == UNION {FilesOfLen(n) : n \in 0..MaxRecords}

\* a faulty sel: the depth limit itself is accepted
loadobs_sel_depth_le(r) ==
    /\ r.depth <= depth_max
    /\ lon[0] < r.lon
    /\ r.lon < last(lon)
    /\ lat[0] < r.lat
    /\ r.lat < last(lat)
    /\ Abs(r.value) < value_max

\* sel of loadobs for one record
loadobs_sel(r) ==
    /\ r.depth < depth_max
    /\ lon[0] < r.lon
    /\ r.lon < last(lon)
    /\ lat[0] < r.lat
    /\ r.lat < last(lat)
    /\ Abs(r.value) < value_max

\* A datetime64[s] is held as <<day, second of the day>>, day counting from
\* 1970-01-01 and 0 <= second < 86400: the count of seconds 86400*day + second
\* itself does not fit TLC's 32-bit integers.
\* np.datetime64('1900-01-01T00:00:00'): its day
Epoch1900 == -25567

\* np.datetime64('1900-01-01T00:00:00') + int(24*60*60*obstime), for whole days
obstime_seconds(days) == <<Epoch1900 + days, 0>>

\* the five arrays loadobs returns
loadobs(f) ==
    LET n == Len(f)
        obsvalue == [k \in 1..n |-> f[k].value]
        obslon == [k \in 1..n |-> f[k].lon]
        obslat == [k \in 1..n |-> f[k].lat]
        obsdepth == [k \in 1..n |-> f[k].depth]
        obstime == [k \in 1..n |-> obstime_seconds(f[k].time)]
        sel == [k \in 1..n |-> loadobs_sel(f[k])]
    IN [value |-> MaskSelect(obsvalue, sel),
        lon |-> MaskSelect(obslon, sel),
        lat |-> MaskSelect(obslat, sel),
        depth |-> MaskSelect(obsdepth, sel),
        time |-> MaskSelect(obstime, sel)]

InitLoad ==
    /\ lon = UniformGrid(LoadLon0, 1, LoadNLon)
    /\ lat = UniformGrid(LoadLat0, 1, LoadNLat)
    /\ mask = [c \in (0..(LoadNLat - 1)) \X (0..(LoadNLon - 1)) |-> TRUE]
    /\ file \in Files
    /\ ret = NotLoaded
    /\ BinIdle
    /\ GenIdle
    /\ SaveIdle
    /\ pc = "loadobs"

\* the call of loadobs on the file
LoadObs ==
    /\ pc = "loadobs"
    /\ ret' = loadobs(file)
    /\ pc' = "loaded"
    /\ UNCHANGED <<saveVars, gridVars, file, binVars, argVars, genVars, cvsel>>

NextLoad == LoadObs

SpecLoad == InitLoad /\ [][NextLoad]_vars

(***************************************************************************)
(* binanalysis                                                             *)
(***************************************************************************)
\* sigma2_min = (0.2)**2 = 1/25
sigma2_min_inv == 25

sigma2_min == <<1, sigma2_min_inv>>

\* np.rint(n/d): the nearest integer, a tie going to the even one
rint(n, d) ==
    LET nn == IF d < 0 THEN -n ELSE n
        dd == Abs(d)
        fl == nn \div dd
        r2 == 2 * (nn - fl * dd)
    IN IF r2 < dd THEN fl
       ELSE IF r2 > dd THEN fl + 1
       ELSE IF fl % 2 = 0 THEN fl ELSE fl + 1

\* a faulty index: the grid's first coordinate is not subtracted
bin_index_no_origin(o, grid) == rint(o, grid[1] - grid[0])

\* the index of an observation along one axis
bin_index(o, grid) == rint(o - grid[0], grid[1] - grid[0])

\* the greatest element of a sequence of naturals, -1 for the empty one
MaxOf(a) ==
    LET S == {a[k] : k \in 1..Len(a)} \cup {-1}
    IN CHOOSE m \in S : \A e \in S : e <= m

\* np.bincount(lin, weights = weights, minlength = minlength)
bincount(lin, weights, minlength) ==
    Eager([c \in 0..(Max(minlength, MaxOf(lin) + 1) - 1) |->
            SumRange([k \in 1..Len(lin) |-> IF lin[k] = c THEN weights[k] ELSE 0],
                     1, Len(lin))])

\* a.reshape(sz) of a flat array, sz = (len(lat), len(lon))
reshape(a, nj, ni) == Eager([c \in (0..(nj - 1)) \X (0..(ni - 1)) |-> a[c[1] * ni + c[2]]])

\* a faulty correction: the factor is not limited to 1
correction_unlimited(minv) ==
    IF minv = 0 THEN RInt(1) ELSE RInv(RMul(RInt(minv), sigma2_min))

\* the correction factor of one cell: 1/(minvsigma2 * sigma2_min), and 1 where
\* that is greater than 1 (1/0 is inf, greater than 1)
correction(minv) ==
    IF minv = 0 THEN RInt(1)
    ELSE LET a == RInv(RMul(RInt(minv), sigma2_min))
         IN IF RLt(RInt(1), a) THEN RInt(1) ELSE a

\* binanalysis: its locals at the return; it returns (mmean, msum, minvsigma2)
binanalysis(obslon, obslat, obsvalue, obsinvsigma2, glon, glat) ==
    LET n == Len(obslon)
        i == Eager([k \in 1..n |-> bin_index(obslon[k], glon)])
        j == Eager([k \in 1..n |-> bin_index(obslat[k], glat)])
        sel == Eager([k \in 1..n |-> /\ 0 <= i[k]
                                     /\ i[k] < len(glon)
                                     /\ 0 <= j[k]
                                     /\ j[k] < len(glat)])
        lin == MaskSelect([k \in 1..n |-> j[k] * len(glon) + i[k]], sel)
        length == len(glat) * len(glon)
        wv == MaskSelect([k \in 1..n |-> obsvalue[k] * obsinvsigma2[k]], sel)
        w == MaskSelect(obsinvsigma2, sel)
        msum0 == reshape(bincount(lin, wv, length), len(glat), len(glon))
        minvsigma20 == reshape(bincount(lin, w, length), len(glat), len(glon))
        alpha == Eager([c \in DOMAIN minvsigma20 |-> correction(minvsigma20[c])])
        minvsigma21 ==
            Eager([c \in DOMAIN minvsigma20 |-> RMul(alpha[c], RInt(minvsigma20[c]))])
        msum1 == Eager([c \in DOMAIN msum0 |-> RMul(alpha[c], RInt(msum0[c]))])
        mmean == Eager([c \in DOMAIN msum1 |->
                        IF RLt(RInt(0), minvsigma21[c])
                        THEN <<RMul(msum1[c], RInv(minvsigma21[c]))>>
                        ELSE <<>>])          \* <<>> stands for NaN
    IN [i |-> i, j |-> j, sel |-> sel,
        msum0 |-> msum0, minvsigma20 |-> minvsigma20, alpha |-> alpha,
        mmean |-> mmean, msum |-> msum1, minvsigma2 |-> minvsigma21]

\* bounds of the binanalysis inputs
MaxGroups == 2
BigRep == 13
BinLon0 == 0
BinLat0 == 40
BinStep == 2
BinNLon == 3
BinNLat == 3

BinLon == UniformGrid(BinLon0, BinStep, BinNLon)
BinLat == UniformGrid(BinLat0, BinStep, BinNLat)

\* positions of the observations, relative to the grid: one step left of it
\* (index -1), outside the grid but rounding into it, between two cells
\* inside it (ties when the step is 2), and one step right of it (index len)
BinObsLons ==
    {BinLon0 - BinStep, BinLon0 - 1, BinLon0 + 1, BinLon0 + BinStep + 1,
     last(BinLon) + BinStep}
BinObsLats == {BinLat0 + 1, BinLat0 + BinStep + 1, last(BinLat) + BinStep}

\* (value, weight, number of copies) of a group of equal observations
BinKinds == {<<-2, 1, 1>>, <<5, 1, BigRep>>, <<5, 2, BigRep>>}

\* n copies of one observation
Repeat(o, n) == [k \in 1..n |-> o]

\* the inputs: up to MaxGroups groups of equal observations
RECURSIVE ObsLists(_)
ObsLists(g) ==
    IF g = 0 THEN {<<>>}
    ELSE {l \o Repeat([lon |-> px, lat |-> py, value |-> kd[1], invsigma2 |-> kd[2]], kd[3]) :
            l \in ObsLists(g - 1), px \in BinObsLons, py \in BinObsLats, kd \in BinKinds}

ObsArrays(l) ==
    [lon |-> [k \in 1..Len(l) |-> l[k].lon],
     lat |-> [k \in 1..Len(l) |-> l[k].lat],
     value |-> [k \in 1..Len(l) |-> l[k].value],
     invsigma2 |-> [k \in 1..Len(l) |-> l[k].invsigma2]]

InitBin ==
    /\ lon = BinLon
    /\ lat = BinLat
    /\ mask = [c \in (0..(BinNLat - 1)) \X (0..(BinNLon - 1)) |-> TRUE]
    /\ LoadIdle
    /\ GenIdle
    /\ SaveIdle
    /\ \E g \in 0..MaxGroups : \E l \in ObsLists(g) : bobs = ObsArrays(l)
    /\ bin = <<>>
    /\ pc = "binanalysis"

\* one call of binanalysis on the observation arrays
Binanalysis ==
    /\ pc = "binanalysis"
    /\ bin' = <<binanalysis(bobs.lon, bobs.lat, bobs.value, bobs.invsigma2, lon, lat)>>
    /\ pc' = "binned"
    /\ UNCHANGED <<saveVars, gridVars, loadVars, bobs, argVars, genVars, cvsel>>

NextBin == Binanalysis

SpecBin == InitBin /\ [][NextBin]_vars

(***************************************************************************)
(* obsmonths: datetime64[s] -> datetime64[M] -> int                        *)
(***************************************************************************)
\* the year and the day of the year (0-based) of a day counted from
\* 1970-01-01, by the proleptic Gregorian calendar (400-, 100-, 4-year cycles
\* counted from 2000-01-01)
days_to_yearsdays(days) ==
    LET d0 == days - (365 * 30 + 7)
        y400 == 400 * (d0 \div 146097)
        d1 == d0 % 146097
    IN IF d1 < 366 THEN <<2000 + y400, d1>>
       ELSE LET y100 == 100 * ((d1 - 1) \div 36524)
                d2 == (d1 - 1) % 36524
            IN IF d2 < 365 THEN <<2000 + y400 + y100, d2>>
               ELSE LET y4 == 4 * ((d2 + 1) \div 1461)
                        d3 == (d2 + 1) % 1461
                    IN IF d3 < 366 THEN <<2000 + y400 + y100 + y4, d3>>
                       ELSE <<2000 + y400 + y100 + y4 + ((d3 - 1) \div 365),
                              (d3 - 1) % 365>>

is_leapyear(year) == year % 4 = 0 /\ (year % 100 # 0 \/ year % 400 = 0)

days_per_month(year) ==
    <<31, IF is_leapyear(year) THEN 29 ELSE 28, 31, 30, 31, 30, 31, 31, 30, 31, 30, 31>>

RECURSIVE month_of_day(_, _, _)
\* the 0-based month holding 0-based day d of a year with month lengths dpm
month_of_day(dpm, d, m) ==
    IF d < dpm[m + 1] THEN m ELSE month_of_day(dpm, d - dpm[m + 1], m + 1)

\* t.astype('datetime64[M]').astype(int): whole months from 1970-01 to the
\* month holding t, negative before 1970
months_since_epoch(t) ==
    LET yd == days_to_yearsdays(t[1])
    IN (yd[1] - 1970) * 12 + month_of_day(days_per_month(yd[1]), yd[2], 0)

\* obsmonths of the script: 1..12
obsmonths_of(obstime) ==
    [k \in 1..Len(obstime) |-> (months_since_epoch(obstime[k]) % 12) + 1]

(***************************************************************************)
(* loadobsdata and its generator datagen                                   *)
(***************************************************************************)
nvar == 6
ntime == 12
meandataval == 15
min_gap_count == 50

\* size_gap = 1.5 = size_gap_x2 / 2 degrees
size_gap_x2 == 3

\* fixed-point units of the coordinates in one degree
UnitsPerDegree == 4

size_gap == Rat(size_gap_x2 * UnitsPerDegree, 2)

\* sin(2 pi k / 12) as <<a, b>>, standing for (a + b sqrt(3)) / 2
sin12(k) ==
    <<<<0, 0>>, <<1, 0>>, <<0, 1>>, <<2, 0>>, <<0, 1>>, <<1, 0>>,
      <<0, 0>>, <<-1, 0>>, <<0, -1>>, <<-2, 0>>, <<0, -1>>, <<-1, 0>>>>[(k % 12) + 1]

\* cos(2 pi k / 12) = sin(2 pi (k + 3) / 12)
cos12(k) == sin12(k + 3)

\* the dist of the script is sqrt(dist_sq); it is only ever compared with a
\* radius r >= 0, and sqrt(d) < r iff d < r*r
dist_sq(lon1, lat1, lon2, lat2) ==
    LET dlon == RAdd(lon1, RMul(RInt(-1), lon2))
        dlat == RAdd(lat2, RMul(RInt(-1), lat1))
    IN RAdd(RMul(dlon, dlon), RMul(dlat, dlat))

\* the cells of the grid, <<j, i>>
Cells == (0..(len(lat) - 1)) \X (0..(len(lon) - 1))

\* the position of a cell in a flattened (row-major) array
flat(c) == c[1] * len(lon) + c[2]

\* np.random.randn: the m-th number (0-based) of a draw, here one of -1, 0, 1
NoiseSeeds == 1

randn(seed, m) == ((seed + m) % 3) - 1

\* random.random(): one of 0, 1/RandomSteps, ..., (RandomSteps-1)/RandomSteps
RandomSteps == 2

\* a faulty x: the lon and lat channels are swapped
build_x_swapped(m_sum, m_inv, mon) ==
    Eager([c \in Cells |->
            <<m_sum[c], m_inv[c], RInt(lat[c[1]]), RInt(lon[c[2]]),
              cos12(mon - 1), sin12(mon - 1)>>])

\* x of datagen: the six channels of every cell
build_x(m_sum, m_inv, mon) ==
    Eager([c \in Cells |->
            <<m_sum[c], m_inv[c], RInt(lon[c[2]]), RInt(lat[c[1]]),
              cos12(mon - 1), sin12(mon - 1)>>])

\* xin = x without the copy: both names are the buffer src
np_alias(h, src, dst) == <<h, src>>

\* x.copy(): a new buffer dst holding the values of buffer src; the arrays
\* are <<heap, the buffer the copy is>>
np_copy(h, src, dst) == <<[h EXCEPT ![dst] = h[src]], dst>>

\* lines 230-235 on the buffer a: noise on the sum and the inverse variance
\* of the cells with data, jitter on the lon and lat of every cell
add_noise(a, m_inv, seed) ==
    LET sel == Eager([c \in Cells |-> RLt(RInt(0), m_inv[c])])
        one == Eager([m \in 0..(len(lat) * len(lon) - 1) |->
                        IF sel[<<m \div len(lon), m % len(lon)>>] THEN 1 ELSE 0])
        \* the position of cell c among the selected cells
        rank(c) == SumRange(one, 0, flat(c) - 1)
        j2 == RMul(jitter_std_value, jitter_std_value)
    IN Eager([c \in Cells |->
        <<IF sel[c]
            THEN RAdd(a[c][1], RMul(jitter_std_value, RInt(randn(seed, rank(c)))))
            ELSE a[c][1],
          IF sel[c] THEN RInv(RAdd(RInv(m_inv[c]), j2)) ELSE a[c][2],
          RAdd(a[c][3], RMul(jitter_std_lon, RInt(randn(seed + 1, flat(c))))),
          RAdd(a[c][4], RMul(jitter_std_lat, RInt(randn(seed + 2, flat(c))))),
          a[c][5], a[c][6]>>])

\* dist_gap < size_gap of line 247-248, with dist's arguments as the script
\* passes them: dist(x[:,:,2], gap_lon, x[:,:,3], gap_lat)
in_gap(xc, g_lon, g_lat) ==
    RLt(dist_sq(xc[3], g_lon, xc[4], g_lat), RMul(size_gap, size_gap))

\* a faulty selmask: the cells without data are selected too
gap_selmask_any(xa, xina, g_lon, g_lat) ==
    Eager([c \in Cells |-> in_gap(xa[c], g_lon, g_lat)])

\* selmask of line 248
gap_selmask(xa, xina, g_lon, g_lat) ==
    Eager([c \in Cells |-> in_gap(xa[c], g_lon, g_lat) /\ RLt(RInt(0), xina[c][2])])

\* lines 254-255 on the buffer a
apply_gap(a, sm) ==
    Eager([c \in Cells |->
            IF sm[c] THEN <<RInt(0), RInt(0), a[c][3], a[c][4], a[c][5], a[c][6]>> ELSE a[c]])

\* the observations of the month: the positions k with obsmonths[k] = mon
month_sel(mon) == Eager([k \in 1..Len(obsmonths) |-> obsmonths[k] = mon])

\* the body of datagen's loop for month mon up to the gap loop (train) or the
\* yield: the month's observations are binned, x is built and copied to xin
\* and, with train, the noise is added to xin
datagen_body(mon, seed) ==
    LET sel == month_sel(mon)
        mobsvalue == MaskSelect(obs.value, sel)
        mobslon == MaskSelect(obs.lon, sel)
        mobslat == MaskSelect(obs.lat, sel)
        mobsinvsigma2 == Eager([k \in 1..Len(mobsvalue) |-> 1])
        b == binanalysis(mobslon, mobslat,
                         Eager([k \in 1..Len(mobsvalue) |-> mobsvalue[k] - meandataval]),
                         mobsinvsigma2, lon, lat)
        h0 == [r \in {"x", "xin"} |-> IF r = "x" THEN build_x(b.msum, b.minvsigma2, mon)
                                                 ELSE <<>>]
        cp == np_copy(h0, "x", "xin")
    IN [msum |-> b.msum, minvsigma2 |-> b.minvsigma2, x |-> "x", xin |-> cp[2],
        heap |-> IF train
                   THEN [cp[1] EXCEPT ![cp[2]] = add_noise(cp[1][cp[2]], b.minvsigma2, seed)]
                   ELSE cp[1],
        sel |-> {k \in 1..Len(sel) : sel[k]}]

\* the generator resumes (or starts) with the next month; with train it
\* enters the gap loop, otherwise it yields the sample
GenResume(seed) ==
    /\ pc \in {"gen_start", "gen_yield"}
    /\ month + 1 <= ntime
    /\ \E r \in {datagen_body(month + 1, seed)} :
          /\ month' = month + 1
          /\ msum' = r.msum
          /\ minvsigma2' = r.minvsigma2
          /\ x' = r.x
          /\ xin' = r.xin
          /\ heap' = r.heap
          /\ IF train
               THEN /\ pc' = "gaploop"
                    /\ UNCHANGED <<out, samples>>
               ELSE /\ pc' = "gen_yield"
                    /\ out' = <<r.xin, r.x>>
                    /\ samples' = Append(samples, [month |-> month + 1, sel |-> r.sel])
    /\ UNCHANGED <<saveVars, gridVars, loadVars, binVars, argVars, gap_lon, gap_lat, selmask, cvsel>>

\* lines 245-246: the gap centre on one axis, with random.random() = r/RandomSteps
gap_centre(first, final, r) ==
    RAdd(RInt(first), RMul(RInt(final - first), Rat(r, RandomSteps)))

\* one turn of the while loop with random.random() = ru/RandomSteps and
\* rv/RandomSteps: a gap centre is drawn and selmask computed; with at least
\* min_gap_count cells selected the loop is left, the cells are zeroed in xin
\* and the sample is yielded
DrawGap(ru, rv) ==
    /\ pc = "gaploop"
    /\ \E g_lon \in {gap_centre(lon[0], last(lon), ru)} :
       \E g_lat \in {gap_centre(lat[0], last(lat), rv)} :
       \E sm \in {gap_selmask(heap[x], heap[xin], g_lon, g_lat)} :
          /\ gap_lon' = g_lon
          /\ gap_lat' = g_lat
          /\ selmask' = sm
          /\ IF Cardinality({c \in Cells : sm[c]}) >= min_gap_count
               THEN /\ heap' = [heap EXCEPT ![xin] = apply_gap(heap[xin], sm)]
                    /\ pc' = "gen_yield"
                    /\ out' = <<xin, x>>
                    /\ samples' = Append(samples, [month |-> month,
                                          sel |-> {k \in 1..Len(obsmonths) : obsmonths[k] = month}])
               ELSE UNCHANGED <<heap, pc, out, samples>>
    /\ UNCHANGED <<saveVars, gridVars, loadVars, binVars, argVars, month, msum, minvsigma2, x, xin, cvsel>>

\* the generator is resumed after the last month: it ends
GenStop ==
    /\ pc = "gen_yield"
    /\ month + 1 > ntime
    /\ pc' = "gen_stop"
    /\ UNCHANGED <<saveVars, gridVars, loadVars, binVars, argVars, genVars, cvsel>>

\* a faulty obsmonths of monthlyCVRMS: 1..12 as in loadobsdata
cv_obsmonths_from1(obstime) ==
    [k \in 1..Len(obstime) |-> (months_since_epoch(obstime[k]) % 12) + 1]

\* obsmonths of monthlyCVRMS: 0..11
cv_obsmonths(obstime) ==
    [k \in 1..Len(obstime) |-> months_since_epoch(obstime[k]) % 12]

\* monthlyCVRMS on the observations: for month = 0..11 the observations
\* compared with value[month,:,:] (the interpolation and the RMS are numbers
\* of the reconstruction, which is not part of the script)
MonthlyCVRMS ==
    /\ pc = "gen_stop"
    /\ LET cvm == cv_obsmonths(obs.time)
       IN cvsel' = [mon \in 0..11 |-> {k \in 1..Len(cvm) : cvm[k] = mon}]
    /\ pc' = "cv_done"
    /\ UNCHANGED <<saveVars, gridVars, loadVars, binVars, argVars, genVars>>

\* bounds of the generator's inputs
GenNLon == 10
GenNLat == 10
FarLatDegrees == 40
MaxTimedObs == 1

\* observation q (0-based) of month mon in the dense data set: one on every
\* inner grid point (loadobs keeps only what is strictly inside the grid's
\* bounds); in month thin only ThinCols columns hold data
InnerLon == GenNLon - 2
InnerLat == GenNLat - 2
ThinCols == (min_gap_count - 1) \div InnerLat

\* the first days, counted from 1900-01-01, of 1900..1903 and of 1970, 1971
YearStarts == <<0, 365, 730, 1095, 25567, 25932>>

DenseObs(thin, glon, glat) ==
    LET n == ntime * InnerLon * InnerLat
        mon(k) == 1 + ((k - 1) % ntime)
        q(k) == (k - 1) \div ntime
        i(k) == 1 + (IF mon(k) = thin THEN ((q(k) % InnerLon) % ThinCols) ELSE (q(k) % InnerLon))
        j(k) == 1 + (q(k) \div InnerLon)
    IN [value |-> [k \in 1..n |-> meandataval + ((i(k) + 2 * j(k) + mon(k)) % 5) - 2],
        lon |-> [k \in 1..n |-> glon[i(k)]],
        lat |-> [k \in 1..n |-> glat[j(k)]],
        time |-> [k \in 1..n |->
                    <<Epoch1900 + YearStarts[1 + (q(k) % 6)] + 30 * (mon(k) - 1) + 15,
                      (7 * k) % 86400>>]]

\* time stamps at the ends of months and years, before and after 1970:
\* 1969-12-31T23:59:59, 1970-01-01T00:00:00, 1900-01-01T00:00:00,
\* 1900-02-28T23:59:59, 1900-03-01T00:00:00, 1904-02-29T12:00:00,
\* 2000-02-29T00:00:00, 2000-12-31T23:59:59, 1899-12-31T23:59:59
TimeStamps ==
    {<<-1, 86399>>, <<0, 0>>, <<Epoch1900, 0>>, <<Epoch1900 + 58, 86399>>,
     <<Epoch1900 + 59, 0>>, <<Epoch1900 + 1519, 43200>>, <<11016, 0>>,
     <<11322, 86399>>, <<Epoch1900 - 1, 86399>>}

RECURSIVE TimedObs(_, _, _)
\* the data sets of n observations on one inner grid point at these time stamps
TimedObs(n, glon, glat) ==
    IF n = 0 THEN {[value |-> <<>>, lon |-> <<>>, lat |-> <<>>, time |-> <<>>]}
    ELSE {[value |-> Append(o.value, meandataval + n), lon |-> Append(o.lon, glon[1]),
           lat |-> Append(o.lat, glat[1]), time |-> Append(o.time, t)] :
            o \in TimedObs(n - 1, glon, glat), t \in TimeStamps}

\* the script's two calls of loadobsdata: train = True with the jitters of
\* lines 341-344 (0.1 degree in lat, a little more in lon, 0.5 in value), and
\* train = False with the defaults 0
InitArgs ==
    \/ /\ train = TRUE
       /\ jitter_std_lat = Rat(UnitsPerDegree, 10)
       /\ jitter_std_lon = Rat(UnitsPerDegree, 8)
       /\ jitter_std_value = <<1, 2>>
    \/ /\ train = FALSE
       /\ jitter_std_lat = <<0, 1>>
       /\ jitter_std_lon = <<0, 1>>
       /\ jitter_std_value = <<0, 1>>

InitGen ==
    /\ lon = UniformGrid(0, 1, GenNLon)
    /\ \/ lat = UniformGrid(0, 1, GenNLat)
       \/ lat = UniformGrid(FarLatDegrees * UnitsPerDegree, 1, GenNLat)
    /\ mask = [c \in (0..(GenNLat - 1)) \X (0..(GenNLon - 1)) |-> TRUE]
    /\ LoadIdle
    /\ BinIdle
    /\ SaveIdle
    /\ InitArgs
    /\ \/ \E thin \in {0, 3} : obs = DenseObs(thin, lon, lat)
       \/ /\ ~train
          /\ lat[0] = 0
          /\ \E n \in 1..MaxTimedObs : obs \in TimedObs(n, lon, lat)
    /\ obsmonths = obsmonths_of(obs.time)
    /\ month = 0
    /\ msum = <<>>
    /\ minvsigma2 = <<>>
    /\ heap = <<>>
    /\ x = ""
    /\ xin = ""
    /\ gap_lon = <<0, 1>>
    /\ gap_lat = <<0, 1>>
    /\ selmask = <<>>
    /\ out = <<>>
    /\ samples = <<>>
    /\ cvsel = <<>>
    /\ pc = "gen_start"

NextGen ==
    \/ \E seed \in (IF train THEN 0..(NoiseSeeds - 1) ELSE {0}) : GenResume(seed)
    \/ \E ru \in 0..(RandomSteps - 1) : \E rv \in 0..(RandomSteps - 1) : DrawGap(ru, rv)
    \/ GenStop
    \/ MonthlyCVRMS

SpecGen == InitGen /\ [][NextGen]_vars

\* a turn of the gap loop that leaves it
AcceptingDraw ==
    \E ru \in 0..(RandomSteps - 1) : \E rv \in 0..(RandomSteps - 1) :
        DrawGap(ru, rv) /\ pc' = "gen_yield"

\* a turn of the gap loop
GapLoopTurn ==
    \E ru \in 0..(RandomSteps - 1) : \E rv \in 0..(RandomSteps - 1) : DrawGap(ru, rv)

\* the gap loop always runs its next turn, and the random draws are fair: a
\* gap centre that the loop would accept, and that keeps being possible, is
\* drawn in the end
FairSpecGen == SpecGen /\ WF_vars(GapLoopTurn) /\ WF_vars(AcceptingDraw)

(***************************************************************************)
(* savesample                                                              *)
(*                                                                         *)
(* The file fname is NoFile or a record of its variables; the two          *)
(* variables with the unlimited dimension time are sequences of time       *)
(* steps, time step t of the source at position t + 1.  A masked cell is   *)
(* stored as fill_value.  created counts how often the file was created.   *)
(* A batch is a sequence of slices, slice n of the source at position      *)
(* n + 1.  The values are integers that float32 holds exactly.             *)
(***************************************************************************)
fill_value == -9999

\* np.sqrt of a perfect square
np_sqrt(v) == CHOOSE r \in 0..v : r * r = v

\* meandata of loadobsdata: meandataval on the sea cells of the mask, masked
\* (<<>>) on the land cells
meandata_of(m) == [c \in DOMAIN m |-> IF m[c] THEN <<meandataval>> ELSE <<>>]

\* np.ma.masked_array(a, meandata.mask) as the file stores it
masked_array(a, meandata) ==
    [c \in DOMAIN meandata |-> IF meandata[c] = <<>> THEN fill_value ELSE a[c]]

\* np.ma.masked_array(a, meandata.mask) + meandata as the file stores it
masked_sum(a, meandata) ==
    [c \in DOMAIN meandata |->
        IF meandata[c] = <<>> THEN fill_value ELSE a[c] + meandata[c][1]]

\* a time step that was never written
FillSlice(meandata) == [c \in DOMAIN meandata |-> fill_value]

\* v[k,:,:] = slice on a variable v whose first dimension is unlimited: the
\* variable grows to k + 1 time steps, the steps in between are fill values
setitem(v, k, slice) ==
    IF k < Len(v)
      THEN [v EXCEPT ![k + 1] = slice]
      ELSE v \o [t \in 1..(k - Len(v)) |-> [c \in DOMAIN slice |-> fill_value]] \o <<slice>>

\* Dataset(fname, 'w') and lines 271-290: a new file replaces the old one
nc_create(old, glon, glat, meandata) ==
    [created |-> IF old = NoFile THEN 1 ELSE old.created + 1,
     lon |-> glon, lat |-> glat,
     meandata |-> [c \in DOMAIN meandata |->
                     IF meandata[c] = <<>> THEN fill_value ELSE meandata[c][1]],
     batch_m_rec |-> <<>>, batch_sigma_rec |-> <<>>]

RECURSIVE save_loop(_, _, _, _, _, _)
\* the first n turns of the loop of lines 297-299 on the open file f
save_loop(f, batch_m_rec, batch_sigma_rec, meandata, offset, n) ==
    IF n = 0 THEN f
    ELSE LET g == save_loop(f, batch_m_rec, batch_sigma_rec, meandata, offset, n - 1)
         IN [g EXCEPT
               !.batch_m_rec = setitem(@, (n - 1) + offset,
                                       masked_sum(batch_m_rec[n], meandata)),
               !.batch_sigma_rec = setitem(@, (n - 1) + offset,
                                           masked_array(batch_sigma_rec[n], meandata))]

\* a faulty savesample: the time steps are written without the offset
savesample_no_offset(f, batch_m_rec, batch_s2_rec, meandata, glon, glat, ii, offset) ==
    LET batch_sigma_rec ==
            [n \in 1..Len(batch_s2_rec) |->
                [c \in DOMAIN batch_s2_rec[n] |-> np_sqrt(batch_s2_rec[n][c])]]
        root_grp == IF ii = 0 THEN nc_create(f, glon, glat, meandata) ELSE f
    IN save_loop(root_grp, batch_m_rec, batch_sigma_rec, meandata, 0,
                 Len(batch_m_rec))

\* savesample on the file f (an existing file if ii # 0): the file at the close
savesample(f, batch_m_rec, batch_s2_rec, meandata, glon, glat, ii, offset) ==
    LET batch_sigma_rec ==
            [n \in 1..Len(batch_s2_rec) |->
                [c \in DOMAIN batch_s2_rec[n] |-> np_sqrt(batch_s2_rec[n][c])]]
        root_grp == IF ii = 0 THEN nc_create(f, glon, glat, meandata) ELSE f
    IN save_loop(root_grp, batch_m_rec, batch_sigma_rec, meandata, offset,
                 Len(batch_m_rec))

\* bounds of the savesample inputs
MaxCalls == 3
MaxBatch == 2
SaveNLon == 2
SaveNLat == 1
SaveLat0 == 40

\* the batch of call k: anomalies of the mean and variances, different in
\* every call, slice and cell
BatchM(k, size) == [n \in 1..size |-> [c \in Cells |-> (10 * k + n + flat(c)) - 20]]
BatchS2(k, size) ==
    [n \in 1..size |-> [c \in Cells |-> (k + n + flat(c)) * (k + n + flat(c))]]

\* the number of time steps of the file
Steps(f) == IF f = NoFile THEN 0 ELSE Len(f.batch_m_rec)

InitSave ==
    /\ lon = UniformGrid(0, 1, SaveNLon)
    /\ lat = UniformGrid(SaveLat0, 1, SaveNLat)
    /\ mask \in {[c \in (0..(SaveNLat - 1)) \X (0..(SaveNLon - 1)) |-> TRUE],
                 [c \in (0..(SaveNLat - 1)) \X (0..(SaveNLon - 1)) |-> c # <<0, 0>>]}
    /\ LoadIdle
    /\ BinIdle
    /\ GenIdle
    /\ SaveIdle
    /\ pc = "save"

\* one call of savesample; Dataset(fname, 'a') opens a file that exists
SaveSample(ii, offset, size) ==
    /\ pc = "save"
    /\ Len(calls) < MaxCalls
    /\ ii # 0 => nc # NoFile
    /\ LET k == Len(calls) + 1
       IN /\ nc' = savesample(nc, BatchM(k, size), BatchS2(k, size), meandata_of(mask),
                              lon, lat, ii, offset)
          /\ calls' = Append(calls, [ii |-> ii, offset |-> offset,
                                     batch_m_rec |-> BatchM(k, size),
                                     batch_s2_rec |-> BatchS2(k, size)])
    /\ UNCHANGED <<gridVars, loadVars, binVars, argVars, genVars, cvsel, pc>>

NextSave ==
    \E ii \in {0, Len(calls)} : \E offset \in {0, Steps(nc), Steps(nc) + 1} :
        \E size \in 1..MaxBatch : SaveSample(ii, offset, size)

SpecSave == InitSave /\ [][NextSave]_vars

(***************************************************************************)
(* Properties                                                              *)
(***************************************************************************)
RECURSIVE SumUpTo(_, _)
\* f[1] + ... + f[n]
SumUpTo(f, n) == IF n = 0 THEN 0 ELSE SumUpTo(f, n - 1) + f[n]

RECURSIVE SumOver(_, _)
\* the sum of f over the finite set S
SumOver(f, S) ==
    IF S = {} THEN 0
    ELSE LET e == CHOOSE y \in S : TRUE IN f[e] + SumOver(f, S \ {e})

Min(a, b) == IF a < b THEN a ELSE b

\* the selection of loadobs, as the claim states it
InsideBox(r) ==
    /\ r.depth < 10
    /\ lon[0] < r.lon /\ r.lon < last(lon)
    /\ lat[0] < r.lat /\ r.lat < last(lat)
    /\ -200 < r.value /\ r.value < 200

\* C5: loadobs returns exactly the records with depth < 10, lon and lat
\* strictly inside the grid's bounds and |value| < 200, in their order, and
\* position k of the five arrays comes from one and the same record
C5_LoadobsFilter ==
    pc = "loaded" =>
        LET kept == SelectSeq(file, InsideBox)
        IN /\ DOMAIN ret.value = DOMAIN kept
           /\ DOMAIN ret.lon = DOMAIN kept
           /\ DOMAIN ret.lat = DOMAIN kept
           /\ DOMAIN ret.depth = DOMAIN kept
           /\ DOMAIN ret.time = DOMAIN kept
           /\ \A k \in DOMAIN kept :
                /\ ret.value[k] = kept[k].value
                /\ ret.lon[k] = kept[k].lon
                /\ ret.lat[k] = kept[k].lat
                /\ ret.depth[k] = kept[k].depth
                /\ ret.time[k] = <<kept[k].time - 25567, 0>>
                /\ ret.depth[k] < 10
                /\ lon[0] < ret.lon[k] /\ ret.lon[k] < last(lon)
                /\ lat[0] < ret.lat[k] /\ ret.lat[k] < last(lat)
                /\ Abs(ret.value[k]) < 200

\* a file of two records of which loadobs drops the first and returns the second
C5_Witness ==
    /\ pc = "loaded"
    /\ Len(file) = 2
    /\ ~InsideBox(file[1])
    /\ InsideBox(file[2])
    /\ Len(ret.time) = 1

\* the observations binanalysis was called with
NObs == Len(bobs.lon)

UnitWeights == \A k \in 1..NObs : bobs.invsigma2[k] = 1

\* the observations whose rounded index is cell c = <<j, i>>
ObsOfCell(c) == {k \in 1..NObs : bin[1].j[k] = c[1] /\ bin[1].i[k] = c[2]}

\* C2: the returned inverse variance of a cell is at most 1/sigma2_min = 25,
\* with unit weights it is min(count, 25), a cell without observation has
\* inverse variance 0 and sum 0, and the cell mean sum/inverse variance is
\* the mean without the floor
C2_UncertaintyFloor ==
    pc = "binned" =>
        \A c \in DOMAIN bin[1].minvsigma2 :
            LET b == bin[1]
                count == Cardinality(ObsOfCell(c))
            IN /\ RLe(b.minvsigma2[c], <<25, 1>>)
               /\ UnitWeights => b.minvsigma2[c] = <<Min(count, 25), 1>>
               /\ count = 0 => b.minvsigma2[c] = <<0, 1>> /\ b.msum[c] = <<0, 1>>
               /\ count = 0 => b.mmean[c] = <<>>
               /\ count > 0 =>
                    /\ RMul(b.msum[c], RInt(b.minvsigma20[c]))
                         = RMul(b.minvsigma2[c], RInt(b.msum0[c]))
                    /\ b.mmean[c] = <<Rat(b.msum0[c], b.minvsigma20[c])>>

\* a cell holding more than 25 unit-weight observations: the floor is active
C2_Witness ==
    /\ pc = "binned"
    /\ UnitWeights
    /\ \E c \in DOMAIN bin[1].minvsigma2 :
            /\ Cardinality(ObsOfCell(c)) > 25
            /\ bin[1].minvsigma2[c] = <<25, 1>>
            /\ bin[1].msum[c] # RInt(bin[1].msum0[c])

StrictlyInside(k) ==
    /\ lon[0] < bobs.lon[k] /\ bobs.lon[k] < last(lon)
    /\ lat[0] < bobs.lat[k] /\ bobs.lat[k] < last(lat)

\* cell index n is a nearest grid point of coordinate x
Nearest(pos, grid, n) ==
    /\ n \in DOMAIN grid
    /\ \A m \in DOMAIN grid : Abs(pos - grid[n]) <= Abs(pos - grid[m])

\* C3: an observation strictly inside the grid's bounds is binned into the
\* cell nearest to it and into no other, an observation whose rounded index
\* is outside the grid into none: before the floor correction every cell
\* holds the weights, and the weighted values, of exactly the observations
\* whose index it is, so the cells sum to the totals of the binned observations
C3_NearestCellBinning ==
    pc = "binned" =>
        LET b == bin[1]
            cells == DOMAIN b.minvsigma20
            w == [k \in 1..NObs |-> bobs.invsigma2[k]]
            wv == [k \in 1..NObs |-> bobs.invsigma2[k] * bobs.value[k]]
            inside == {k \in 1..NObs : StrictlyInside(k)}
            binned == {k \in 1..NObs : <<b.j[k], b.i[k]>> \in cells}
        IN /\ \A k \in inside :
                /\ Nearest(bobs.lon[k], lon, b.i[k])
                /\ Nearest(bobs.lat[k], lat, b.j[k])
           /\ inside \subseteq binned
           /\ \A c \in cells :
                /\ b.minvsigma20[c] = SumOver(w, ObsOfCell(c))
                /\ b.msum0[c] = SumOver(wv, ObsOfCell(c))
           /\ SumOver(b.minvsigma20, cells) = SumOver(w, binned)
           /\ SumOver(b.msum0, cells) = SumOver(wv, binned)
           /\ inside = 1..NObs => SumOver(b.minvsigma20, cells) = SumUpTo(w, NObs)

\* two observations strictly inside the grid's bounds, one of them half-way
\* between two grid points, and nothing else
C3_Witness ==
    /\ pc = "binned"
    /\ NObs >= 2
    /\ \A k \in 1..NObs : StrictlyInside(k)
    /\ \E k \in 1..NObs : \E m \in DOMAIN lon :
            m + 1 \in DOMAIN lon /\ 2 * bobs.lon[k] = lon[m] + lon[m + 1]
    /\ SumOver(bin[1].minvsigma20, DOMAIN bin[1].minvsigma20) = NObs

\* the arrays of the sample yielded last: the input xin, and x, of which the
\* target x[:,:,0:2] is a view
Input == heap[out[1]]
TargetOf == heap[out[2]]

Positive(r) == RLt(<<0, 1>>, r)

\* C1: the target of a training sample is, in every cell, the sum and the
\* inverse variance binanalysis returned for the month: noise, jitter and
\* gap touch the copy xin only
C1_TargetUntouched ==
    (pc = "gen_yield" /\ train) =>
        /\ DOMAIN TargetOf = Cells
        /\ \A c \in Cells :
            /\ TargetOf[c][1] = msum[c]
            /\ TargetOf[c][2] = minvsigma2[c]

\* a training sample whose input differs from the target by noise in a cell
\* outside the gap, by jitter of lon and lat, and by the zeroed gap
C1_Witness ==
    /\ pc = "gen_yield"
    /\ train
    /\ \E c \in Cells :
        /\ ~selmask[c]
        /\ Positive(minvsigma2[c])
        /\ Input[c][1] # msum[c]
        /\ Input[c][2] # minvsigma2[c]
    /\ \E c \in Cells : Input[c][3] # RInt(lon[c[2]]) /\ Input[c][4] # RInt(lat[c[1]])
    /\ \E c \in Cells : selmask[c] /\ msum[c] # <<0, 1>> /\ Input[c][1] = <<0, 1>>

\* the cells of the yielded sample that the target has data for and the
\* input has zero sum and zero inverse variance for
GapCells ==
    {c \in Cells : /\ Positive(TargetOf[c][2])
                   /\ Input[c][1] = <<0, 1>>
                   /\ Input[c][2] = <<0, 1>>}

\* C4: a training sample has at least 50 cells with data in the target and
\* zero sum and inverse variance in the input, and the turn of the loop that
\* yields it zeroes only cells whose input inverse variance was positive,
\* and changes no other cell
C4_GapOfAtLeast50 ==
    /\ [](pc = "gen_yield" /\ train => Cardinality(GapCells) >= 50)
    /\ [][(pc = "gaploop" /\ pc' = "gen_yield") =>
            \A c \in Cells :
                IF selmask'[c]
                  THEN /\ Positive(heap[xin][c][2])
                       /\ heap'[xin'][c][1] = <<0, 1>>
                       /\ heap'[xin'][c][2] = <<0, 1>>
                  ELSE heap'[xin'][c] = heap[xin][c]]_vars

\* a training sample of month 12 with a gap of at least 50 cells
C4_Witness ==
    /\ pc = "gen_yield"
    /\ train
    /\ month = 12
    /\ Cardinality({c \in Cells : selmask[c]}) >= 50
    /\ Cardinality(GapCells) >= 50

\* C7: without train the input equals x in all six channels, lon and lat
\* channels are the grid's coordinates, sample k is the one of month k, and
\* the generator ends after exactly 12 samples
C7_TestSamplesClean ==
    ~train =>
        /\ pc = "gen_yield" =>
            /\ Input = heap[x]
            /\ \A c \in Cells :
                /\ Input[c][1] = TargetOf[c][1]
                /\ Input[c][2] = TargetOf[c][2]
                /\ Input[c][3] = <<lon[c[2]], 1>>
                /\ Input[c][4] = <<lat[c[1]], 1>>
            /\ Len(samples) = month
        /\ \A k \in 1..Len(samples) : samples[k].month = k
        /\ Len(samples) <= 12
        /\ pc \in {"gen_stop", "cv_done"} => Len(samples) = 12

\* the generator without train has ended after yielding samples with data
C7_Witness ==
    /\ pc = "gen_stop"
    /\ ~train
    /\ Len(samples) = 12
    /\ \E c \in Cells : Positive(Input[c][2]) /\ Input[c][1] # <<0, 1>>

\* the distance of a cell's grid point from the gap centre is less than size_gap
InDisc(c, g_lon, g_lat) ==
    LET dx == RAdd(RInt(lon[c[2]]), RMul(<<-1, 1>>, g_lon))
        dy == RAdd(RInt(lat[c[1]]), RMul(<<-1, 1>>, g_lat))
    IN RLt(RAdd(RMul(dx, dx), RMul(dy, dy)), RMul(size_gap, size_gap))

\* C8: the cells zeroed in a training sample are exactly the cells with data
\* at Euclidean distance less than size_gap = 1.5 degrees from the gap centre
C8_GapIsDisc ==
    (pc = "gen_yield" /\ train) =>
        \A c \in Cells :
            selmask[c] <=> (Positive(minvsigma2[c]) /\ InDisc(c, gap_lon, gap_lat))

\* some disc of radius size_gap, centred where the loop can draw its centre,
\* holds at least min_gap_count = 50 cells with data
DiscWithData ==
    \E ru \in 0..(RandomSteps - 1) : \E rv \in 0..(RandomSteps - 1) :
        Cardinality({c \in Cells :
                        /\ Positive(minvsigma2[c])
                        /\ InDisc(c, gap_centre(lon[0], last(lon), ru),
                                     gap_centre(lat[0], last(lat), rv))}) >= 50

\* C9: the gap loop of a month for which some disc of radius size_gap holds
\* at least 50 cells with data ends: the month's sample is yielded
C9_GapLoopTerminates ==
    []((pc = "gaploop" /\ DiscWithData) => <>(pc = "gen_yield"))

\* C10: sample k of datagen (0-based) holds exactly the observations that
\* monthlyCVRMS compares with value[k,:,:], and every observation is in
\* exactly one of the 12 samples and in exactly one of the 12 months
C10_MonthIndexAgrees ==
    pc = "cv_done" =>
        /\ Len(samples) = 12
        /\ DOMAIN cvsel = 0..11
        /\ \A k \in 0..11 : samples[k + 1].sel = cvsel[k]
        /\ \A n \in 1..Len(obs.time) :
            /\ Cardinality({k \in 0..11 : n \in samples[k + 1].sel}) = 1
            /\ Cardinality({k \in 0..11 : n \in cvsel[k]}) = 1

\* an observation of 1969-12-31T23:59:59, before the epoch, is in the
\* twelfth sample and in month 11 of monthlyCVRMS
C10_Witness ==
    /\ pc = "cv_done"
    /\ \E n \in 1..Len(obs.time) :
        /\ obs.time[n] = <<-1, 86399>>
        /\ n \in samples[12].sel
        /\ n \in cvsel[11]

\* the calls are a first call with ii = 0 followed by calls with ii > 0,
\* each with offset equal to the number of time steps written before it
ProperCalls ==
    /\ Len(calls) >= 1
    /\ calls[1].ii = 0
    /\ calls[1].offset = 0
    /\ \A k \in 2..Len(calls) :
        /\ calls[k].ii > 0
        /\ calls[k].offset = calls[k - 1].offset + Len(calls[k - 1].batch_m_rec)

\* time step offset + n of the file holds slice n of the batch of call c
FileHolds(c) ==
    \A n \in 1..Len(c.batch_m_rec) :
        /\ c.offset + n <= Len(nc.batch_m_rec)
        /\ c.offset + n <= Len(nc.batch_sigma_rec)
        /\ \A cell \in Cells :
            IF mask[cell]
              THEN /\ nc.batch_m_rec[c.offset + n][cell]
                        = c.batch_m_rec[n][cell] + meandataval
                   /\ nc.batch_sigma_rec[c.offset + n][cell] >= 0
                   /\ nc.batch_sigma_rec[c.offset + n][cell]
                        * nc.batch_sigma_rec[c.offset + n][cell] = c.batch_s2_rec[n][cell]
              ELSE /\ nc.batch_m_rec[c.offset + n][cell] = fill_value
                   /\ nc.batch_sigma_rec[c.offset + n][cell] = fill_value

\* the call c with ii > 0 keeps the file and all its time steps outside
\* offset..offset+batch_size-1
CallAppends(c) ==
    /\ nc # NoFile
    /\ nc'.created = nc.created
    /\ nc'.lon = nc.lon /\ nc'.lat = nc.lat /\ nc'.meandata = nc.meandata
    /\ Len(nc'.batch_m_rec) >= Len(nc.batch_m_rec)
    /\ Len(nc'.batch_sigma_rec) >= Len(nc.batch_sigma_rec)
    /\ \A t \in 1..Len(nc.batch_m_rec) :
        (t - 1 < c.offset \/ t - 1 >= c.offset + Len(c.batch_m_rec)) =>
            /\ nc'.batch_m_rec[t] = nc.batch_m_rec[t]
            /\ nc'.batch_sigma_rec[t] = nc.batch_sigma_rec[t]

\* the call c with ii = 0 makes a new file that holds the batch of c only
CallRecreates(c) ==
    /\ nc'.created = (IF nc = NoFile THEN 1 ELSE nc.created + 1)
    /\ Len(nc'.batch_m_rec) = c.offset + Len(c.batch_m_rec)
    /\ Len(nc'.batch_sigma_rec) = c.offset + Len(c.batch_m_rec)
    /\ \A t \in 1..c.offset : \A cell \in Cells :
        /\ nc'.batch_m_rec[t][cell] = fill_value
        /\ nc'.batch_sigma_rec[t][cell] = fill_value

\* C6: after a first call with ii = 0 and later calls with ii > 0 and offset
\* = the number of time steps written so far, time step offset + n holds
\* slice n of every call's batch (mean = batch_m_rec + meandata, sigma =
\* sqrt of the variance, land cells masked); a call with ii > 0 keeps the
\* file and every time step outside offset..offset+batch_size-1; a call with
\* ii = 0 makes a new file without the time steps written before
C6_IncrementalAppend ==
    /\ [](ProperCalls =>
            /\ \A k \in 1..Len(calls) : FileHolds(calls[k])
            /\ Len(nc.batch_m_rec)
                 = calls[Len(calls)].offset + Len(calls[Len(calls)].batch_m_rec))
    /\ [][calls' # calls =>
            IF calls'[Len(calls')].ii > 0
              THEN CallAppends(calls'[Len(calls')])
              ELSE CallRecreates(calls'[Len(calls')])]_vars

\* three calls, the first with ii = 0, the others appending, on a grid with a
\* land cell
C6_Witness ==
    /\ ProperCalls
    /\ Len(calls) >= 3
    /\ \E cell \in Cells : ~mask[cell]
    /\ Len(nc.batch_m_rec) >= 4
    /\ nc.created = 1

=============================================================================
